---- MODULE Spec2Model ----
(***************************************************************************)
(* stack_pool<T,N> (src/exam/stack_pool.hpp): many singly-linked stacks    *)
(* stored in one std::vector<node_t>, addressed by 1-based indices of the  *)
(* unsigned type N, with 0 as end(), and a free list threaded through the  *)
(* same next fields.  _iterator<P,T> is the forward cursor over one stack. *)
(*                                                                         *)
(* The arena is modelled together with one caller that owns two stack      *)
(* handles and always stores the handle an operation returns.              *)
(***************************************************************************)
EXTENDS Integers, Sequences, FiniteSets, TLC

\* ---- bounds of the model ------------------------------------------------
\* most slots the backing vector is grown to
MaxPool == 3
\* largest argument the caller gives to reserve
MaxReserve == 3
\* width in bits of the index type N
NBits == 2

\* the values of type T the caller pushes (T is opaque to the pool)
Values == {10, 20}
\* content of a node_t value that node_t(N nxt) leaves default-initialised
Indeterminate == 0

\* the stacks the caller owns: it keeps one handle for each
Stacks == {"A", "B"}
\* the stack named by a call that is about no caller stack
NoStack == "none"

RECURSIVE Pow2(_)
Pow2(n) == IF n = 0 THEN 1 ELSE 2 * Pow2(n - 1)

\* number of values of the unsigned index type N
Modulus == Pow2(NBits)
\* every value of type N
Handles == 0..(Modulus - 1)

VARIABLES
  pool,        \* std::vector<node_t> pool: sequence of [value, next]
  free_nodes,  \* stack_type free_nodes: head of the free list
  cap,         \* pool.capacity()
  heads,       \* the caller's stack handles
  itr,         \* the caller's cursor: [current, bound]
  hist,        \* per caller stack: the values pushed and not yet removed, in push order
  last,        \* the last call: its arguments, outcome and the state before it
  track,       \* the indices the pushes that follow a free_stack are to return
  trip,        \* a pop directly followed by a push of the popped value
  walk,        \* the positions the cursor has left since begin
  peak,        \* the most nodes the caller's stacks have held at one time
  observe      \* which of track, trip and walk this run records

vars == <<pool, free_nodes, cap, heads, itr, hist, last, track, trip, walk,
          peak, observe>>

\* ---- stack_pool: accessors ----------------------------------------------

\* stack_pool::end
end == 0

\* stack_pool::empty
empty(x) == x = end

\* new_stack that returns the number of slots, the sentinel of an empty pool
\* only
new_stack_size == Len(pool)

\* stack_pool::new_stack
new_stack == end

\* x - 1 in the unsigned arithmetic of N = std::size_t: the vector index
\* node(x) reads
Slot(x) == (x - 1) % Modulus

\* whether pool[x - 1] is an element of the vector; operator[] does not check
InBounds(x) == Slot(x) < Len(pool)

\* stack_pool::node
node(x) == pool[Slot(x) + 1]

\* stack_pool::value, on an index inside the vector
value(x) == node(x).value

\* stack_pool::next, on an index inside the vector
next(x) == node(x).next

\* ---- traversal: _iterator started by begin(x), ++ until end() -----------

\* the indices a cursor visits in the vector p from x, repeating operator++
\* (current = next(current)) until it is at end(); at most fuel of them
RECURSIVE Walk(_, _, _)
Walk(p, x, fuel) ==
  IF empty(x) \/ fuel = 0 \/ Slot(x) >= Len(p) THEN <<>>
  ELSE <<x>> \o Walk(p, p[Slot(x) + 1].next, fuel - 1)

\* whether the cursor started at x reaches end() within fuel increments
\* (no cycle, no index outside the vector)
RECURSIVE Terminates(_, _, _)
Terminates(p, x, fuel) ==
  IF empty(x) THEN TRUE
  ELSE IF fuel = 0 \/ Slot(x) >= Len(p) THEN FALSE
  ELSE Terminates(p, p[Slot(x) + 1].next, fuel - 1)

\* the chain of x in the vector p: the indices a cursor visits from begin(x)
ChainIn(p, x) == Walk(p, x, Len(p) + 1)

\* the values the cursor yields on the way (operator* at every position)
TraverseIn(p, x) ==
  [i \in 1..Len(ChainIn(p, x)) |-> p[Slot(ChainIn(p, x)[i]) + 1].value]

Chain(x) == ChainIn(pool, x)

Traverse(x) == TraverseIn(pool, x)

\* following next from x ends at end() without visiting a node twice
WellFormed(x) == Terminates(pool, x, Len(pool))

\* the set of nodes of the chain of x
NodesIn(p, x) == {ChainIn(p, x)[i] : i \in 1..Len(ChainIn(p, x))}

Nodes(x) == NodesIn(pool, x)

\* ---- results of a call --------------------------------------------------

\* what a call leaves behind: the arena, the returned value and how it ended:
\* "ok", "bad_alloc" (std::bad_alloc thrown), "error" (the process is stopped
\* by an invalid access), "hang" (the call never returns)
Result(p, f, c, r, o) ==
  [pool |-> p, free_nodes |-> f, cap |-> c, ret |-> r, outcome |-> o]

\* the ways a build resolves an access outside the vector (undefined
\* behaviour of operator[]): the access traps, or it reads the word found there
UB == [crash : BOOLEAN, word : {0, Modulus - 1}]

\* the resolution given to calls that make no such access
NoUB == [crash |-> TRUE, word |-> 0]

\* the resolutions to consider for a call that accesses node(x)
UBFor(x) == IF InBounds(x) THEN {NoUB} ELSE UB

\* ---- stack_pool: operations ---------------------------------------------

\* capacities std::vector may choose when push_back has to reallocate: the
\* growth factor is the library's choice (1.5 and 2 are in use)
Growth == IF Len(pool) = 0 THEN {1} ELSE {Len(pool) + 1, 2 * Len(pool)}

\* push_universal without "next(new_head) = head"
push_universal_nolink(val, head, grow) ==
  IF empty(free_nodes) /\ Len(pool) = cap /\ grow = 0
  THEN Result(pool, free_nodes, cap, end, "bad_alloc")
  ELSE
    LET appended == empty(free_nodes)
        p1 == IF appended
              THEN Append(pool, [value |-> Indeterminate, next |-> end])
              ELSE pool
        c1 == IF appended /\ Len(pool) = cap THEN grow ELSE cap
        new_head == IF appended THEN Len(p1) % Modulus ELSE free_nodes
    IN Result([p1 EXCEPT ![new_head].value = val],
              p1[new_head].next, c1, new_head, "ok")

\* push_universal that appends a slot on every call, whatever free_nodes is
push_universal_append(val, head, grow) ==
  IF Len(pool) = cap /\ grow = 0
  THEN Result(pool, free_nodes, cap, end, "bad_alloc")
  ELSE
    LET new_head == (Len(pool) + 1) % Modulus
    IN Result(Append(pool, [value |-> val, next |-> head]), free_nodes,
              IF Len(pool) = cap THEN grow ELSE cap, new_head, "ok")

\* push_universal that takes the slot after the head of the free list and
\* leaves the head where it is
push_universal_second(val, head, grow) ==
  IF empty(free_nodes) /\ Len(pool) = cap /\ grow = 0
  THEN Result(pool, free_nodes, cap, end, "bad_alloc")
  ELSE
    LET appended == empty(free_nodes)
        p1 == IF appended
              THEN Append(pool, [value |-> Indeterminate, next |-> end])
              ELSE pool
        c1 == IF appended /\ Len(pool) = cap THEN grow ELSE cap
        f1 == IF appended THEN Len(p1) % Modulus ELSE free_nodes
        new_head == IF empty(p1[f1].next) THEN f1 ELSE p1[f1].next
        f2 == IF new_head = f1 THEN p1[f1].next ELSE f1
        p2 == IF new_head = f1 THEN p1
              ELSE [p1 EXCEPT ![f1].next = p1[new_head].next]
    IN Result([p2 EXCEPT ![new_head] = [value |-> val, next |-> head]],
              f2, c1, new_head, "ok")

\* push_universal that sets free_nodes = pool.size() + 1 before push_back
push_universal_early(val, head, grow) ==
  IF empty(free_nodes) /\ Len(pool) = cap /\ grow = 0
  THEN Result(pool, (Len(pool) + 1) % Modulus, cap, end, "bad_alloc")
  ELSE
    LET appended == empty(free_nodes)
        p1 == IF appended
              THEN Append(pool, [value |-> Indeterminate, next |-> end])
              ELSE pool
        c1 == IF appended /\ Len(pool) = cap THEN grow ELSE cap
        new_head == IF appended THEN Len(p1) % Modulus ELSE free_nodes
    IN Result([p1 EXCEPT ![new_head] = [value |-> val, next |-> head]],
              p1[new_head].next, c1, new_head, "ok")

\* push_universal whose "free_nodes = pool.size()" keeps one bit less than N
\* has, as an index type narrower than the size stored in it would
push_universal_narrow(val, head, grow) ==
  IF empty(free_nodes) /\ Len(pool) = cap /\ grow = 0
  THEN Result(pool, free_nodes, cap, end, "bad_alloc")
  ELSE
    LET appended == empty(free_nodes)
        p1 == IF appended
              THEN Append(pool, [value |-> Indeterminate, next |-> end])
              ELSE pool
        c1 == IF appended /\ Len(pool) = cap THEN grow ELSE cap
        f1 == IF appended THEN Len(p1) % (Modulus \div 2) ELSE free_nodes
        new_head == f1
    IN IF Slot(new_head) >= Len(p1)
       THEN Result(p1, f1, c1, end, "error")
       ELSE Result([p1 EXCEPT ![new_head] = [value |-> val, next |-> head]],
                   p1[new_head].next, c1, new_head, "ok")

\* stack_pool::push_universal(val, head); grow is the capacity the allocator
\* grants if push_back reallocates, 0 when the allocation throws
push_universal(val, head, grow) ==
  IF empty(free_nodes) /\ Len(pool) = cap /\ grow = 0
  THEN Result(pool, free_nodes, cap, end, "bad_alloc")
  ELSE
    LET appended == empty(free_nodes)
        p1 == IF appended
              THEN Append(pool, [value |-> Indeterminate, next |-> end])
              ELSE pool
        c1 == IF appended /\ Len(pool) = cap THEN grow ELSE cap
        f1 == IF appended THEN Len(p1) % Modulus ELSE free_nodes
        new_head == f1
    IN IF Slot(new_head) >= Len(p1)
       THEN Result(p1, f1, c1, end, "error")
       ELSE Result([p1 EXCEPT ![new_head] = [value |-> val, next |-> head]],
                   p1[new_head].next, c1, new_head, "ok")

\* push_universal left by an exception of "value(new_head) = val", the
\* assignment of a T that may throw: the slot is taken, free_nodes has moved
\* on, and "next(new_head) = head" and the return are not reached
push_universal_unwound(val, head, grow) ==
  IF empty(free_nodes) /\ Len(pool) = cap /\ grow = 0
  THEN Result(pool, free_nodes, cap, end, "bad_alloc")
  ELSE
    LET appended == empty(free_nodes)
        p1 == IF appended
              THEN Append(pool, [value |-> Indeterminate, next |-> end])
              ELSE pool
        c1 == IF appended /\ Len(pool) = cap THEN grow ELSE cap
        f1 == IF appended THEN Len(p1) % Modulus ELSE free_nodes
        new_head == f1
    IN IF Slot(new_head) >= Len(p1)
       THEN Result(p1, f1, c1, end, "error")
       ELSE Result(p1, p1[new_head].next, c1, end, "throw")

\* pop without "next(x) = free_nodes"
pop_norelink(x, u) ==
  IF InBounds(x)
  THEN Result(pool, x, cap, next(x), "ok")
  ELSE IF u.crash
       THEN Result(pool, free_nodes, cap, end, "error")
       ELSE Result(pool, x, cap, u.word, "ok")

\* pop that returns x instead of the new head
pop_samehead(x, u) ==
  IF InBounds(x)
  THEN Result([pool EXCEPT ![x].next = free_nodes], x, cap, x, "ok")
  ELSE IF u.crash
       THEN Result(pool, free_nodes, cap, end, "error")
       ELSE Result(pool, x, cap, u.word, "ok")

\* pop that also resets the value of the node it frees
pop_clear(x, u) ==
  IF InBounds(x)
  THEN Result([pool EXCEPT ![x] = [value |-> Indeterminate, next |-> free_nodes]],
              x, cap, next(x), "ok")
  ELSE IF u.crash
       THEN Result(pool, free_nodes, cap, end, "error")
       ELSE Result(pool, x, cap, u.word, "ok")

\* stack_pool::pop(x); u resolves the access when x is outside the vector
pop(x, u) ==
  IF InBounds(x)
  THEN Result([pool EXCEPT ![x].next = free_nodes], x, cap, next(x), "ok")
  ELSE IF u.crash
       THEN Result(pool, free_nodes, cap, end, "error")
       ELSE Result(pool, x, cap, u.word, "ok")

\* the node the loop of free_stack stops at: the first node from x whose next
\* is end(); end() itself when the loop does not stop within fuel steps
RECURSIVE Bottom(_, _)
Bottom(x, fuel) ==
  IF fuel = 0 THEN end
  ELSE IF next(x) = end THEN x
  ELSE Bottom(next(x), fuel - 1)

\* free_stack that releases the top node only, as pop does
free_stack_top(x) ==
  IF empty(x) THEN Result(pool, free_nodes, cap, x, "ok")
  ELSE Result([pool EXCEPT ![x].next = free_nodes], x, cap, end, "ok")

\* free_stack that sets free_nodes = x before it tests empty(x)
free_stack_nocheck(x) ==
  IF empty(x) THEN Result(pool, x, cap, x, "ok")
  ELSE LET bottom == Bottom(x, Len(pool))
       IN IF bottom = end
          THEN Result(pool, free_nodes, cap, end, "hang")
          ELSE Result([pool EXCEPT ![bottom].next = free_nodes], x, cap, end, "ok")

\* free_stack that hangs the chain behind the last node of the free list
free_stack_back(x) ==
  IF empty(x) THEN Result(pool, free_nodes, cap, x, "ok")
  ELSE IF empty(free_nodes) THEN Result(pool, x, cap, end, "ok")
  ELSE LET bottom == Bottom(free_nodes, Len(pool))
       IN IF bottom = end
          THEN Result(pool, free_nodes, cap, end, "hang")
          ELSE Result([pool EXCEPT ![bottom].next = x], free_nodes, cap, end, "ok")

\* stack_pool::free_stack(x), for x == end() or x inside the vector
free_stack(x) ==
  IF empty(x) THEN Result(pool, free_nodes, cap, x, "ok")
  ELSE LET bottom == Bottom(x, Len(pool))
       IN IF bottom = end
          THEN Result(pool, free_nodes, cap, end, "hang")
          ELSE Result([pool EXCEPT ![bottom].next = free_nodes], x, cap, end, "ok")

\* reserve that sets the capacity to n whenever the nodes fit, as a shrinking
\* request would
reserve_exact(n) ==
  Result(pool, free_nodes, IF n > Len(pool) THEN n ELSE Len(pool), end, "ok")

\* reserve that calls pool.resize(n, node_t(end())): the vector is cut or
\* filled up to n slots
reserve_resize(n) ==
  Result(IF n <= Len(pool) THEN SubSeq(pool, 1, n)
         ELSE pool \o [i \in 1..(n - Len(pool)) |->
                         [value |-> Indeterminate, next |-> end]],
         free_nodes, IF n > cap THEN n ELSE cap, end, "ok")

\* stack_pool::reserve(n): std::vector::reserve
reserve(n) ==
  Result(pool, free_nodes, IF n > cap THEN n ELSE cap, end, "ok")

\* a call of value(x) or next(x): reads field fld of node(x)
read(x, fld, u) ==
  IF InBounds(x)
  THEN Result(pool, free_nodes, cap, node(x)[fld], "ok")
  ELSE IF u.crash
       THEN Result(pool, free_nodes, cap, end, "error")
       ELSE Result(pool, free_nodes, cap, u.word, "ok")

\* ---- _iterator -----------------------------------------------------------

\* _iterator(): current is 0 and pool is nullptr (bound: pool == this)
default_iterator == [current |-> end, bound |-> FALSE]

\* stack_pool::begin(x): _iterator(this, x)
begin(x) == [current |-> x, bound |-> TRUE]

\* stack_pool::end(x): _iterator(this, end())
end_iterator(x) == [current |-> end, bound |-> TRUE]

\* operator== that compares the positions only, not the pools
equal_index_only(a, b) == a.current = b.current

\* operator==(const _iterator&, const _iterator&)
equal(a, b) == (a.current = b.current) /\ (a.bound = b.bound)

\* operator++ that leaves current where it is
increment_stay(c, u) ==
  IF InBounds(c)
  THEN Result(pool, free_nodes, cap, c, "ok")
  ELSE read(c, "next", u)

\* _iterator::operator++ at position c: the new position pool->next(c)
increment(c, u) == read(c, "next", u)

\* _iterator::operator* at position c: pool->value(c)
dereference(c, u) == read(c, "value", u)

\* ---- the caller ---------------------------------------------------------

\* the arena and the caller's handles before a call
Pre == [pool |-> pool, free_nodes |-> free_nodes, cap |-> cap, heads |-> heads]

\* the record of a call: op on caller stack s (or NoStack) with handle h and
\* value v (0: none); valid: the call respects the preconditions of the pool
Call(op, s, h, v, r, valid) ==
  [op |-> op, s |-> s, h |-> h, v |-> v, ret |-> r.ret, outcome |-> r.outcome,
   valid |-> valid, pre |-> Pre]

Commit(r) ==
  /\ pool' = r.pool
  /\ free_nodes' = r.free_nodes
  /\ cap' = r.cap

\* track after a free_stack: expect, the indices of the freed chain not yet
\* handed out again; want and took, the index the last push was to return and
\* the one it returned; done, the pushes since; size, the slots at free_stack
NoTrack == [on |-> FALSE, expect |-> <<>>, want |-> end, took |-> end,
            done |-> 0, size |-> 0]

NoTrip == [on |-> FALSE, s |-> NoStack, h |-> end, values |-> <<>>, free |-> end]

\* walk after begin(heads[s]) = begin(start): the positions the cursor was
\* incremented from, in order
NoWalk == [on |-> FALSE, s |-> NoStack, start |-> end, visited |-> <<>>]

\* the number of nodes in the chains of the handles hs in the vector p
RECURSIVE LiveIn(_, _, _)
LiveIn(p, hs, S) ==
  IF S = {} THEN 0
  ELSE LET s == CHOOSE x \in S : TRUE
       IN Len(ChainIn(p, hs[s])) + LiveIn(p, hs, S \ {s})

\* a run is followed up to its first call that breaks a precondition
Running == last.valid

\* whether this run records g
Observing(g) == g \in observe

\* the state after construction, in a run that records obs
InitWith(obs) ==
  /\ observe = obs
  /\ walk = NoWalk
  /\ peak = 0
  /\ pool = <<>>
  /\ free_nodes = end
  /\ cap = 0
  /\ heads = [s \in Stacks |-> new_stack]
  /\ itr = default_iterator
  /\ hist = [s \in Stacks |-> <<>>]
  /\ last = [op |-> "init", s |-> NoStack, h |-> end, v |-> 0, ret |-> end,
             outcome |-> "ok", valid |-> TRUE,
             pre |-> [pool |-> <<>>, free_nodes |-> end, cap |-> 0,
                      heads |-> [s \in Stacks |-> new_stack]]]
  /\ track = NoTrack
  /\ trip = NoTrip

Init == InitWith({"track", "trip"})

\* heads[s] = pool.push(v, heads[s])
Push(s, v) ==
  /\ Running
  /\ (Len(pool) < MaxPool /\ Len(pool) + 1 < Modulus) \/ ~empty(free_nodes)
  /\ \E grow \in Growth :
       LET r == push_universal(v, heads[s], grow) IN
         /\ Commit(r)
         /\ heads' = [heads EXCEPT ![s] = r.ret]
         /\ hist' = [hist EXCEPT ![s] = Append(@, v)]
         /\ last' = Call("push", s, heads[s], v, r, TRUE)
         /\ peak' = IF LiveIn(r.pool, [heads EXCEPT ![s] = r.ret], Stacks) > peak
                    THEN LiveIn(r.pool, [heads EXCEPT ![s] = r.ret], Stacks)
                    ELSE peak
         /\ track' = IF track.on /\ track.expect # <<>>
                     THEN [track EXCEPT !.expect = Tail(@),
                                        !.want = Head(track.expect),
                                        !.took = r.ret,
                                        !.done = @ + 1]
                     ELSE NoTrack
  /\ trip' = IF Observing("trip") /\ last.op = "pop" /\ last.s = s /\ last.v = v
             THEN [on |-> TRUE, s |-> s, h |-> last.h,
                   values |-> TraverseIn(last.pre.pool, last.h),
                   free |-> last.pre.free_nodes]
             ELSE NoTrip
  /\ UNCHANGED <<itr, walk, observe>>

\* heads[s] = pool.push(v, heads[s]) when the vector is full and the
\* allocation of the larger buffer throws: the assignment does not happen
PushBadAlloc(s, v) ==
  /\ Running
  /\ empty(free_nodes) /\ Len(pool) = cap
  /\ LET r == push_universal(v, heads[s], 0) IN
       /\ Commit(r)
       /\ last' = Call("push", s, heads[s], v, r, TRUE)
  /\ trip' = NoTrip
  /\ UNCHANGED <<heads, hist, itr, track, walk, peak, observe>>

\* heads[s] = pool.pop(heads[s]) on a non-empty stack
Pop(s) ==
  /\ Running
  /\ ~empty(heads[s])
  /\ LET r == pop(heads[s], NoUB) IN
       /\ Commit(r)
       /\ heads' = [heads EXCEPT ![s] = r.ret]
       /\ hist' = [hist EXCEPT ![s] = SubSeq(@, 1, Len(@) - 1)]
       /\ last' = Call("pop", s, heads[s], value(heads[s]), r, TRUE)
  /\ track' = NoTrack
  /\ trip' = NoTrip
  /\ UNCHANGED <<itr, walk, peak, observe>>

\* heads[s] = pool.free_stack(heads[s]), on an empty stack too
FreeStack(s) ==
  /\ Running
  /\ LET r == free_stack(heads[s]) IN
       /\ Commit(r)
       /\ heads' = [heads EXCEPT ![s] = r.ret]
       /\ hist' = [hist EXCEPT ![s] = <<>>]
       /\ last' = Call("free_stack", s, heads[s], 0, r, TRUE)
  /\ track' = IF Observing("track")
              THEN [on |-> TRUE, expect |-> Chain(heads[s]), want |-> end,
                    took |-> end, done |-> 0, size |-> Len(pool)]
              ELSE NoTrack
  /\ trip' = NoTrip
  /\ UNCHANGED <<itr, walk, peak, observe>>

\* pool.reserve(n)
Reserve(n) ==
  /\ Running
  /\ LET r == reserve(n) IN
       /\ Commit(r)
       /\ last' = Call("reserve", NoStack, end, n, r, TRUE)
  /\ trip' = NoTrip
  /\ UNCHANGED <<heads, hist, itr, track, walk, peak, observe>>

Next ==
  \/ \E s \in Stacks, v \in Values : Push(s, v)
  \/ \E s \in Stacks, v \in Values : PushBadAlloc(s, v)
  \/ \E s \in Stacks : Pop(s)
  \/ \E s \in Stacks : FreeStack(s)

\* the pool under a caller that respects every precondition
Spec == Init /\ [][Next]_vars

\* heads[s] = pool.new_stack(), in a handle that names no node
NewStack(s) ==
  /\ Running
  /\ empty(heads[s])
  /\ heads' = [heads EXCEPT ![s] = new_stack]
  /\ last' = Call("new_stack", s, heads[s], 0,
                  Result(pool, free_nodes, cap, new_stack, "ok"), TRUE)
  /\ trip' = NoTrip
  /\ UNCHANGED <<pool, free_nodes, cap, hist, itr, track, walk, peak, observe>>

\* pool.end()
End ==
  /\ Running
  /\ last' = Call("end", NoStack, end, 0,
                  Result(pool, free_nodes, cap, end, "ok"), TRUE)
  /\ trip' = NoTrip
  /\ UNCHANGED <<pool, free_nodes, cap, heads, hist, itr, track, walk, peak,
                 observe>>

\* pool.empty(heads[s])
Empty(s) ==
  /\ Running
  /\ last' = Call("empty", s, heads[s], 0,
                  Result(pool, free_nodes, cap, empty(heads[s]), "ok"), TRUE)
  /\ trip' = NoTrip
  /\ UNCHANGED <<pool, free_nodes, cap, heads, hist, itr, track, walk, peak,
                 observe>>

NextCapacity ==
  \/ Next
  \/ \E n \in 0..MaxReserve : Reserve(n)
  \/ \E s \in Stacks : NewStack(s)
  \/ End
  \/ \E s \in Stacks : Empty(s)

InitCapacity == InitWith({})

\* the same caller, who also reserves capacity, starts stacks anew and asks
\* whether a stack is empty
SpecCapacity == InitCapacity /\ [][NextCapacity]_vars

\* ---- a caller whose values may throw when assigned ----------------------

\* heads[s] = pool.push(v, heads[s]) when the assignment of v to the node
\* throws: the exception leaves push and heads[s] is not assigned
PushThrows(s, v) ==
  /\ Running
  /\ (Len(pool) < MaxPool /\ Len(pool) + 1 < Modulus) \/ ~empty(free_nodes)
  /\ \E grow \in Growth :
       LET r == push_universal_unwound(v, heads[s], grow) IN
         /\ Commit(r)
         /\ last' = Call("push", s, heads[s], v, r, TRUE)
  /\ track' = NoTrack
  /\ trip' = NoTrip
  /\ UNCHANGED <<heads, hist, itr, walk, peak, observe>>

NextThrow ==
  \/ Next
  \/ \E s \in Stacks, v \in Values : PushThrows(s, v)

InitThrow == InitWith({})

\* the pool under a caller that respects every precondition and stores
\* values of a type whose assignment may throw
SpecThrow == InitThrow /\ [][NextThrow]_vars

\* ---- a caller that may also break the preconditions --------------------

\* pool.value(heads[s]), on an empty stack too
Value(s) ==
  /\ Running
  /\ \E u \in UBFor(heads[s]) :
       LET r == read(heads[s], "value", u) IN
         /\ Commit(r)
         /\ last' = Call("value", s, heads[s], 0, r, ~empty(heads[s]))
  /\ trip' = NoTrip
  /\ UNCHANGED <<heads, hist, itr, track, walk, peak, observe>>

\* pool.next(heads[s]), on an empty stack too
NextOf(s) ==
  /\ Running
  /\ \E u \in UBFor(heads[s]) :
       LET r == read(heads[s], "next", u) IN
         /\ Commit(r)
         /\ last' = Call("next", s, heads[s], 0, r, ~empty(heads[s]))
  /\ trip' = NoTrip
  /\ UNCHANGED <<heads, hist, itr, track, walk, peak, observe>>

\* heads[s] = pool.pop(heads[s]) on an empty stack
PopEmpty(s) ==
  /\ Running
  /\ empty(heads[s])
  /\ \E u \in UBFor(heads[s]) :
       LET r == pop(heads[s], u) IN
         /\ Commit(r)
         /\ heads' = IF r.outcome = "ok" THEN [heads EXCEPT ![s] = r.ret]
                     ELSE heads
         /\ last' = Call("pop", s, heads[s], 0, r, FALSE)
  /\ track' = NoTrack
  /\ trip' = NoTrip
  /\ UNCHANGED <<hist, itr, walk, peak, observe>>

\* pool.pop(h) with a handle h the caller kept after its node was freed
PopFreed(h) ==
  /\ Running
  /\ h \in Nodes(free_nodes)
  /\ LET r == pop(h, NoUB) IN
       /\ Commit(r)
       /\ last' = Call("pop", NoStack, h, value(h), r, FALSE)
  /\ track' = NoTrack
  /\ trip' = NoTrip
  /\ UNCHANGED <<heads, hist, itr, walk, peak, observe>>

\* pool.free_stack(h) with a handle h the caller kept after its node was freed
FreeStackFreed(h) ==
  /\ Running
  /\ h \in Nodes(free_nodes)
  /\ LET r == free_stack(h) IN
       /\ Commit(r)
       /\ last' = Call("free_stack", NoStack, h, 0, r, FALSE)
  /\ track' = NoTrack
  /\ trip' = NoTrip
  /\ UNCHANGED <<heads, hist, itr, walk, peak, observe>>

\* itr = pool.begin(heads[s])
CursorBegin(s) ==
  /\ Running
  /\ itr' = begin(heads[s])
  /\ last' = Call("begin", s, heads[s], 0,
                  Result(pool, free_nodes, cap, heads[s], "ok"), TRUE)
  /\ walk' = IF Observing("walk")
             THEN [on |-> TRUE, s |-> s, start |-> heads[s], visited |-> <<>>]
             ELSE NoWalk
  /\ trip' = NoTrip
  /\ UNCHANGED <<pool, free_nodes, cap, heads, hist, track, peak, observe>>

\* ++itr, at end() too
CursorIncrement ==
  /\ Running
  /\ itr.bound
  /\ \E u \in UBFor(itr.current) :
       LET r == increment(itr.current, u) IN
         /\ Commit(r)
         /\ itr' = IF r.outcome = "ok" THEN [itr EXCEPT !.current = r.ret]
                   ELSE itr
         /\ last' = Call("++", NoStack, itr.current, 0, r, ~empty(itr.current))
  /\ walk' = IF walk.on THEN [walk EXCEPT !.visited = Append(@, itr.current)]
             ELSE walk
  /\ trip' = NoTrip
  /\ UNCHANGED <<heads, hist, track, peak, observe>>

\* *itr, at end() too
CursorDereference ==
  /\ Running
  /\ itr.bound
  /\ \E u \in UBFor(itr.current) :
       LET r == dereference(itr.current, u) IN
         /\ Commit(r)
         /\ last' = Call("*", NoStack, itr.current, 0, r, ~empty(itr.current))
  /\ trip' = NoTrip
  /\ UNCHANGED <<heads, hist, itr, track, walk, peak, observe>>

NextMisuse ==
  \/ Next
  \/ \E s \in Stacks : Value(s)
  \/ \E s \in Stacks : NextOf(s)
  \/ \E s \in Stacks : PopEmpty(s)
  \/ \E h \in Handles : PopFreed(h)
  \/ \E h \in Handles : FreeStackFreed(h)
  \/ \E s \in Stacks : CursorBegin(s)
  \/ CursorIncrement
  \/ CursorDereference

InitMisuse == InitWith({})

\* the pool under a caller that reads its stacks, walks them with a cursor
\* and may break a precondition once
SpecMisuse == InitMisuse /\ [][NextMisuse]_vars

\* ---- a caller that walks its stacks ------------------------------------

\* itr = _iterator(): the caller gives up its cursor
CursorDrop ==
  /\ Running
  /\ itr.bound
  /\ itr' = default_iterator
  /\ walk' = NoWalk
  /\ last' = Call("drop", NoStack, itr.current, 0,
                  Result(pool, free_nodes, cap, end, "ok"), TRUE)
  /\ trip' = NoTrip
  /\ UNCHANGED <<pool, free_nodes, cap, heads, hist, track, peak, observe>>

\* the caller changes the pool only while it holds no cursor, and uses the
\* cursor only where it may: ++ and * at a node, never at end()
NextCursor ==
  \/ ~itr.bound /\ Next
  \/ \E s \in Stacks : CursorBegin(s)
  \/ ~empty(itr.current) /\ CursorIncrement
  \/ ~empty(itr.current) /\ CursorDereference
  \/ CursorDrop

InitCursor == InitWith({"walk"})

\* the pool under a caller that respects every precondition and walks its
\* stacks with a cursor
SpecCursor == InitCursor /\ [][NextCursor]_vars

\* ---- properties ---------------------------------------------------------

RECURSIVE Reverse(_)
Reverse(q) == IF q = <<>> THEN <<>> ELSE Append(Reverse(Tail(q)), Head(q))

\* C1: the values pushed onto an initially empty stack, each push on the
\* handle the previous one returned, are read back from the last handle in
\* reverse push order and nothing else, whatever else the caller does with its
\* other stack in between (hist also follows pops: a pop takes away the value
\* pushed last).
ReversePushOrder ==
  \A s \in Stacks : Traverse(heads[s]) = Reverse(hist[s])

\* a stack of two different values, the second just pushed, while the other
\* stack owns a node too
ReversePushOrderWitness ==
  /\ last.op = "push" /\ last.outcome = "ok" /\ last.s = "A"
  /\ hist["A"] = <<10, 20>>
  /\ hist["B"] # <<>>

\* C2: under valid use the chains of the caller's heads and the chain of
\* free_nodes are each acyclic and end at 0, and they are pairwise disjoint.
ChainsDisjoint ==
  /\ WellFormed(free_nodes)
  /\ \A s \in Stacks :
       /\ WellFormed(heads[s])
       /\ Nodes(heads[s]) \cap Nodes(free_nodes) = {}
       /\ \A r \in Stacks : r # s => Nodes(heads[s]) \cap Nodes(heads[r]) = {}

\* both stacks and the free list own a node, after a pop
ChainsDisjointWitness ==
  /\ last.op = "pop"
  /\ \A s \in Stacks : ~empty(heads[s])
  /\ ~empty(free_nodes)

\* C5: pop(h) directly followed by push(v, h') of the popped value v returns h
\* again, gives the chain the values it had before the pop and leaves
\* free_nodes as it was before the pop.
PopPushRoundTrip ==
  trip.on =>
    /\ last.ret = trip.h
    /\ heads[trip.s] = trip.h
    /\ Traverse(heads[trip.s]) = trip.values
    /\ free_nodes = trip.free

\* such a round trip on a stack of two nodes while the free list is not empty
PopPushRoundTripWitness ==
  /\ trip.on
  /\ Len(trip.values) = 2
  /\ ~empty(trip.free)

\* C6: free_stack(s) returns end(), every node of s is then reachable from
\* free_nodes, and the pushes that follow (no pop or free_stack in between)
\* return the indices of s, from its head on, while the vector keeps its size.
FreeStackReuse ==
  /\ (last.op = "free_stack" /\ last.valid) =>
       /\ last.ret = end
       /\ heads[last.s] = end
       /\ NodesIn(last.pre.pool, last.h) \subseteq Nodes(free_nodes)
  /\ track.on =>
       /\ track.took = track.want
       /\ Len(pool) = track.size

\* a stack of two nodes was freed and two pushes have reused its two slots
FreeStackReuseWitness ==
  /\ track.on
  /\ track.done = 2
  /\ track.expect = <<>>
  /\ last.op = "push"

\* C7: free_stack(end()) returns end() and changes neither free_nodes, nor any
\* node, nor the size or capacity of the vector.
FreeEmptyNoOp ==
  (last.op = "free_stack" /\ empty(last.h)) =>
    /\ last.ret = end
    /\ last.outcome = "ok"
    /\ pool = last.pre.pool
    /\ free_nodes = last.pre.free_nodes
    /\ cap = last.pre.cap

\* free_stack of an empty stack while the free list is not empty
FreeEmptyNoOpWitness ==
  /\ last.op = "free_stack" /\ empty(last.h)
  /\ ~empty(free_nodes)
  /\ \E s \in Stacks : ~empty(heads[s])

\* C8: a push that completes takes the head of the free list if there is one
\* (free_nodes becomes that slot's former next, the vector does not grow) and
\* appends one slot, returned as old size + 1, only if there is none; the
\* returned slot holds the value and has next == head.
PushFreeListFirst ==
  (last.op = "push" /\ last.outcome = "ok") =>
    /\ IF ~empty(last.pre.free_nodes)
       THEN /\ last.ret = last.pre.free_nodes
            /\ free_nodes = last.pre.pool[last.ret].next
            /\ Len(pool) = Len(last.pre.pool)
       ELSE /\ Len(pool) = Len(last.pre.pool) + 1
            /\ last.ret = Len(last.pre.pool) + 1
    /\ pool[last.ret] = [value |-> last.v, next |-> last.h]

\* a push onto a non-empty stack that took the head of a free list of two
PushFreeListFirstWitness ==
  /\ last.op = "push" /\ last.outcome = "ok"
  /\ ~empty(last.h)
  /\ ~empty(last.pre.free_nodes)
  /\ ~empty(free_nodes)

\* C9: pop(h) of a current non-empty head returns what next(h) was, and then
\* free_nodes == h and next(h) is the former free_nodes.
PopRelinks ==
  (last.op = "pop" /\ last.valid) =>
    /\ last.outcome = "ok"
    /\ last.ret = last.pre.pool[last.h].next
    /\ free_nodes = last.h
    /\ next(last.h) = last.pre.free_nodes

\* a pop from a stack of two nodes while the free list was not empty
PopRelinksWitness ==
  /\ last.op = "pop" /\ last.valid
  /\ ~empty(last.ret)
  /\ ~empty(last.pre.free_nodes)

\* C10: a push whose push_back cannot allocate does not complete and leaves
\* free_nodes, the size and capacity and every node as they were.
BadAllocKeepsState ==
  last.outcome = "bad_alloc" =>
    /\ last.op = "push"
    /\ pool = last.pre.pool
    /\ free_nodes = last.pre.free_nodes
    /\ cap = last.pre.cap
    /\ heads = last.pre.heads

\* a failed allocation on a vector that holds two nodes
BadAllocKeepsStateWitness ==
  /\ last.outcome = "bad_alloc"
  /\ Len(pool) = 2

\* C3: pop, value and next with the handle end(), and ++ and * of a cursor at
\* end(), end with an invalid-access error and leave the nodes and free_nodes
\* unchanged.
SentinelFailsFast ==
  (last.op \in {"pop", "value", "next", "++", "*"} /\ empty(last.h)) =>
    /\ last.outcome = "error"
    /\ pool = last.pre.pool
    /\ free_nodes = last.pre.free_nodes

\* C4: pop and free_stack with an index that was already freed end with an
\* invalid-access error and leave every chain, the free list included, acyclic
\* and disjoint from the others.
FreedHandleFailsSafe ==
  (last.op \in {"pop", "free_stack"} /\ ~last.valid /\ ~empty(last.h)) =>
    /\ last.outcome = "error"
    /\ ChainsDisjoint

\* C11: capacity() never decreases across a push, reserve, pop or free_stack,
\* and a pop or a free_stack leaves it exactly as it was.
CapacityMonotone ==
  last.op \in {"push", "reserve", "pop", "free_stack"} =>
    /\ cap >= last.pre.cap
    /\ last.op \in {"pop", "free_stack"} => cap = last.pre.cap

\* a reserve for less than the capacity, which exceeds the slots in use
CapacityMonotoneWitness ==
  /\ last.op = "reserve"
  /\ last.v < last.pre.cap
  /\ Len(pool) < last.pre.cap
  /\ last.v >= Len(pool)
  /\ pool # <<>>

\* the nodes of the caller's stacks given by the handles hs in the vector p
LiveNodesIn(p, hs) == UNION {NodesIn(p, hs[s]) : s \in Stacks}

\* C12: index 0 is only ever the sentinel. A push never returns 0 nor an index
\* of a node that was live before it, the index of an appended slot is the
\* size of the vector, not a truncation of it, and the nodes live at once, up
\* to 2^w - 1 of them, have distinct indices in 1..2^w - 1.
IndexZeroReserved ==
  /\ last.op = "push" =>
        /\ last.outcome \in {"ok", "bad_alloc"}
        /\ last.outcome = "ok" =>
              /\ last.ret # end
              /\ last.ret \notin LiveNodesIn(last.pre.pool, last.pre.heads)
              /\ Len(pool) > Len(last.pre.pool) => last.ret = Len(pool)
  /\ LiveNodesIn(pool, heads) \subseteq 1..(Modulus - 1)
  /\ Cardinality(LiveNodesIn(pool, heads)) = LiveIn(pool, heads, Stacks)

\* max(N) = 2^w - 1 nodes are live at once, the last of them at index max(N)
IndexZeroReservedWitness ==
  /\ last.op = "push"
  /\ last.outcome = "ok"
  /\ last.ret = Modulus - 1
  /\ Len(pool) = Modulus - 1
  /\ LiveIn(pool, heads, Stacks) = Modulus - 1

\* C13: a cursor created at the head of a caller's stack of length k (k values
\* pushed and not popped) visits the nodes of that stack in chain order, each
\* once, none of them a node of another stack or of the free list, and is at
\* the sentinel after exactly k advances and not before.
CursorVisitsChain ==
  walk.on =>
    LET c == Chain(walk.start)
        k == Len(hist[walk.s])
        j == Len(walk.visited)
    IN /\ WellFormed(walk.start)
       /\ Len(c) = k
       /\ j <= k
       /\ walk.visited = SubSeq(c, 1, j)
       /\ itr.current = (IF j < k THEN c[j + 1] ELSE end)
       /\ empty(itr.current) <=> j = k
       /\ \A i \in 1..j : \A m \in 1..j :
             walk.visited[i] = walk.visited[m] => i = m
       /\ \A i \in 1..j :
             /\ walk.visited[i] \notin Nodes(free_nodes)
             /\ \A t \in Stacks \ {walk.s} :
                   walk.visited[i] \notin Nodes(heads[t])

\* a cursor went through a stack of two nodes to the sentinel, while the
\* other stack holds a node
CursorVisitsChainWitness ==
  /\ walk.on
  /\ Len(walk.visited) = 2
  /\ empty(itr.current)
  /\ last.op = "++"
  /\ \E t \in Stacks \ {walk.s} : ~empty(heads[t])

\* C14: new_stack() and end() return the same value, the sentinel 0, in every
\* state of the arena and change nothing in it; empty(h) returns true exactly
\* when h is the sentinel, and never fails.
SentinelQueries ==
  /\ new_stack = end
  /\ last.op \in {"new_stack", "end", "empty"} =>
        /\ last.outcome = "ok"
        /\ pool = last.pre.pool
        /\ free_nodes = last.pre.free_nodes
        /\ cap = last.pre.cap
  /\ last.op \in {"new_stack", "end"} => last.ret = 0
  /\ last.op = "empty" => (last.ret <=> last.h = 0)

\* empty(h) answered false for the head of a stack, in an arena that also
\* holds free slots
SentinelQueriesWitness ==
  /\ last.op = "empty"
  /\ ~last.ret
  /\ last.h # 0
  /\ free_nodes # 0

\* C15: two cursors compare equal exactly when they refer to the same arena
\* and have the same current index: begin(h) == end(h) exactly when h is the
\* sentinel, a cursor of no arena differs from end(h) though both are at index
\* 0, and a cursor started at a stack of length k equals end(h) after exactly
\* k advances and not before.
CursorEquality ==
  /\ \A s \in Stacks :
        equal(begin(heads[s]), end_iterator(heads[s])) <=> empty(heads[s])
  /\ \A s \in Stacks : \A t \in Stacks :
        equal(begin(heads[s]), begin(heads[t])) <=> heads[s] = heads[t]
  /\ ~equal(default_iterator, end_iterator(end))
  /\ equal(itr, default_iterator) <=> ~itr.bound
  /\ walk.on =>
        (equal(itr, end_iterator(walk.start))
           <=> Len(walk.visited) = Len(hist[walk.s]))

\* a cursor advanced three times over a stack of three nodes equals end(h)
CursorEqualityWitness ==
  /\ walk.on
  /\ Len(hist[walk.s]) = 3
  /\ Len(walk.visited) = 3
  /\ equal(itr, end_iterator(walk.start))
  /\ ~equal(begin(walk.start), end_iterator(walk.start))

\* C16: free_stack(h) of a non-empty stack puts the whole chain of h in front
\* of the free list, in its order: free_nodes is h, the free list is the
\* former chain of h followed by the former free list, and the only field of
\* the arena that changed is the next of the last node of the chain, from the
\* sentinel to the former free_nodes.
FreeStackSplices ==
  (last.op = "free_stack" /\ ~empty(last.h)) =>
    LET p0 == last.pre.pool
        f0 == last.pre.free_nodes
        c == ChainIn(p0, last.h)
        b == c[Len(c)]
    IN /\ last.outcome = "ok"
       /\ free_nodes = last.h
       /\ Chain(free_nodes) = c \o ChainIn(p0, f0)
       /\ Len(pool) = Len(p0)
       /\ \A i \in 1..Len(pool) : i # b => pool[i] = p0[i]
       /\ p0[b].next = end
       /\ pool[b] = [p0[b] EXCEPT !.next = f0]

\* a stack of two nodes was freed while the free list held a node
FreeStackSplicesWitness ==
  /\ last.op = "free_stack"
  /\ Len(ChainIn(last.pre.pool, last.h)) = 2
  /\ ~empty(last.pre.free_nodes)
  /\ Len(Chain(free_nodes)) = 3

\* C17: a push, also one that reallocates the vector, and a reserve leave
\* every stack the caller had as it was: each node of it has the index, the
\* value and the next it had, so its traversal yields the same values; a
\* reserve changes neither the slots nor free_nodes.
PushReserveFrame ==
  last.op \in {"push", "reserve"} =>
    /\ last.op = "reserve" =>
          (pool = last.pre.pool /\ free_nodes = last.pre.free_nodes)
    /\ Len(pool) >= Len(last.pre.pool)
    /\ \A s \in Stacks :
          LET h == last.pre.heads[s] IN
            /\ ChainIn(pool, h) = ChainIn(last.pre.pool, h)
            /\ TraverseIn(pool, h) = TraverseIn(last.pre.pool, h)
            /\ \A n \in NodesIn(last.pre.pool, h) : pool[n] = last.pre.pool[n]
    /\ \A s \in Stacks \ {last.s} : heads[s] = last.pre.heads[s]

\* a push onto one of two non-empty stacks moved the vector to a larger
\* buffer
PushReserveFrameWitness ==
  /\ last.op = "push"
  /\ last.outcome = "ok"
  /\ cap > last.pre.cap
  /\ \A s \in Stacks : ~empty(last.pre.heads[s])

\* C18: pop and free_stack change no stored value and no link of another
\* stack: pop(h) changes next(h) and free_nodes only, free_stack(h) the next
\* of the last node of h and free_nodes only; every stack but the one of h
\* traverses to the values it had, and a stored value changes only in the
\* node a push returns, so a freed node keeps its value until then.
PopFreeFrame ==
  LET p0 == last.pre.pool
      kept == IF Len(pool) < Len(p0) THEN Len(pool) ELSE Len(p0)
  IN /\ \A i \in 1..kept :
           pool[i].value # p0[i].value => (last.op = "push" /\ i = last.ret)
     /\ last.op \in {"pop", "free_stack"} =>
           /\ Len(pool) = Len(p0)
           /\ \A i \in 1..Len(p0) :
                 pool[i].next # p0[i].next =>
                   /\ ~empty(last.h)
                   /\ last.op = "pop" => i = last.h
                   /\ last.op = "free_stack" =>
                         (p0[i].next = end /\ i \in NodesIn(p0, last.h))
           /\ \A s \in Stacks \ {last.s} :
                 /\ heads[s] = last.pre.heads[s]
                 /\ Chain(heads[s]) = ChainIn(p0, heads[s])
                 /\ Traverse(heads[s]) = TraverseIn(p0, heads[s])

\* the top of a stack of two nodes was popped while the other stack held a
\* node; the freed node still holds the popped value
PopFreeFrameWitness ==
  /\ last.op = "pop"
  /\ ~empty(last.ret)
  /\ \E s \in Stacks \ {last.s} : ~empty(heads[s])
  /\ free_nodes = last.h
  /\ value(last.h) = last.v

\* C19: no slot is leaked by pushes, pops and free_stacks on the caller's
\* current heads: every index in 1..size is reachable from exactly one of the
\* caller's heads and free_nodes, so the number of slots is the total length
\* of the caller's stacks plus the length of the free list.
NoSlotLeaked ==
  /\ \A i \in 1..Len(pool) :
        Cardinality({s \in Stacks : i \in Nodes(heads[s])})
          + (IF i \in Nodes(free_nodes) THEN 1 ELSE 0) = 1
  /\ Len(pool) = LiveIn(pool, heads, Stacks) + Len(Chain(free_nodes))

\* C20: the vector grows only when every slot is a node of a caller's stack:
\* in every state the number of slots is the largest number of nodes the
\* caller's stacks held at once so far (peak), a push that grows the vector
\* found every slot live, and a push that finds the free list non-empty adds
\* no slot.
GrowsOnlyWhenFull ==
  /\ Len(pool) = peak
  /\ (last.op = "push" /\ Len(pool) > Len(last.pre.pool)) =>
        LiveIn(last.pre.pool, last.pre.heads, Stacks) = Len(last.pre.pool)
  /\ (last.op = "push" /\ ~empty(last.pre.free_nodes)) =>
        Len(pool) = Len(last.pre.pool)

====
